---- MODULE Spec2Model ----
(***************************************************************************)
(* G2452_ULP_RTC: an MSP430G2452 real-time clock with a USI I2C slave      *)
(* interface.  The model follows main.c (register file, time engine,       *)
(* alarm engine, tick handler, I2C callbacks) and USI_I2C_slave.c (the     *)
(* USI interrupt state machine).                                           *)
(*                                                                         *)
(* Bytes are integers 0..255 and every C operation on them is computed     *)
(* with its 8-bit width.  The main loop is modelled statement by           *)
(* statement (pc), the two interrupt handlers run to completion: the       *)
(* MSP430 clears GIE on interrupt entry and neither handler re-enables it. *)
(***************************************************************************)
EXTENDS Integers, Sequences, FiniteSets, TLC

\* ------------------------------------------------------------------------
\* Bounds of the model
\* ------------------------------------------------------------------------

\* Calls of the function under study in the function-level specifications.
MaxCalls == 2

\* Timer interrupts and USI interrupts taken in the system specification.
MaxTicks == 17
MaxBus == 6

\* ------------------------------------------------------------------------
\* C arithmetic on unsigned char
\* ------------------------------------------------------------------------

BIT0 == \h01
BIT1 == \h02
BIT2 == \h04
BIT3 == \h08
BIT4 == \h10
BIT5 == \h20
BIT6 == \h40
BIT7 == \h80

Byte == 0..255

RECURSIVE AndBits(_, _, _)
AndBits(x, y, n) ==
    IF n = 0 THEN 0
    ELSE (IF x % 2 = 1 /\ y % 2 = 1 THEN 1 ELSE 0)
         + 2 * AndBits(x \div 2, y \div 2, n - 1)

\* x & y, x | y, ~x, x << 4, x >> 4 and x + 1 on 8 bits
And8(x, y) == AndBits(x, y, 8)
Or8(x, y) == x + y - And8(x, y)
Not8(x) == 255 - x
Shl4(x) == (x * 16) % 256
Shr4(x) == x \div 16
Inc8(x) == (x + 1) % 256

\* ------------------------------------------------------------------------
\* State
\* ------------------------------------------------------------------------

VARIABLES
    _DATA_STORE,              \* unsigned char _DATA_STORE[31]
    _second_tick,             \* ticker for a second
    _is_leap_year,            \* leap year indicator (the leap cache)
    _I2C_data_offset,         \* register cursor of the I2C callbacks
    _RTC_action_bits,         \* pending deferred actions
    _RTC_byte_l,              \* scratch of _time_carry / _check_leap_year
    _RTC_byte_h,
    _USI_I2C_slave_n_byte,    \* byte-count tracker of the receiver
    _USI_I2C_slave_own_addr,  \* the address selected at start-up
    _USI_I2C_slave_state,     \* state of the USI interrupt state machine
    _USI_I2C_slave_RX_buff,   \* last byte handed to the RX callback
    USISRL,                   \* USI shift register, as the handler leaves it
    P1OUT,                    \* port 1 output latch
    P2OUT,                    \* port 2 output latch, bits 0..5
    pc,                       \* statement of main() about to execute
    day_mask_bit,             \* local of _check_alarms
    stray,                    \* a store through the cursor fell outside _DATA_STORE
    calls,                    \* function calls made (function-level specifications)
    nticks,                   \* timer interrupts taken
    nbus                      \* USI interrupts taken

vars ==
    << _DATA_STORE, _second_tick, _is_leap_year, _I2C_data_offset,
       _RTC_action_bits, _RTC_byte_l, _RTC_byte_h, _USI_I2C_slave_n_byte,
       _USI_I2C_slave_own_addr, _USI_I2C_slave_state, _USI_I2C_slave_RX_buff,
       USISRL, P1OUT, P2OUT, pc, day_mask_bit, stray, calls, nticks, nbus >>

\* The variables the time engine reads and writes, as one record.
Engine ==
    [ ds |-> _DATA_STORE, leap |-> _is_leap_year, bits |-> _RTC_action_bits,
      bl |-> _RTC_byte_l, bh |-> _RTC_byte_h ]

SetEngine(e) ==
    /\ _DATA_STORE' = e.ds
    /\ _is_leap_year' = e.leap
    /\ _RTC_action_bits' = e.bits
    /\ _RTC_byte_l' = e.bl
    /\ _RTC_byte_h' = e.bh

\* ------------------------------------------------------------------------
\* Time engine
\* ------------------------------------------------------------------------

\* A leap test that ignores the parity of the tens digit.
_check_leap_year_even_only(e) ==
    LET l == Shl4(e.ds[6])
    IN  [e EXCEPT !.leap = IF l = \h40 \/ l = \h80 THEN 1 ELSE 0, !.bl = l]

\* void _check_leap_year()
_check_leap_year(e) ==
    LET l == Shl4(e.ds[6])
        leap == IF And8(e.ds[6], \h10) # 0
                THEN (IF l = \h20 \/ l = \h60 THEN 1 ELSE 0)
                ELSE (IF l = \h40 \/ l = \h80 THEN 1 ELSE 0)
    IN  [e EXCEPT !.leap = leap, !.bl = l]

\* A carry that adds 0x10 and leaves the units nibble as it is.
_time_carry_keeps_units(e, k) ==
    LET l == Shl4(e.ds[k])
    IN  IF l = \hA0
        THEN [e EXCEPT !.bl = l, !.bh = Shr4(e.ds[k]) + 1,
                       !.ds[k] = (e.ds[k] + 16) % 256]
        ELSE [e EXCEPT !.bl = l]

\* void _time_carry(unsigned char * byte), byte = _DATA_STORE + k
_time_carry(e, k) ==
    LET l == Shl4(e.ds[k])
    IN  IF l = \hA0
        THEN LET h == Shr4(e.ds[k]) + 1
             IN  [e EXCEPT !.bl = l, !.bh = h, !.ds[k] = Shl4(h)]
        ELSE [e EXCEPT !.bl = l]

\* A second that rolls over one count early (== 0x59 after the increment).
TI_second_rolls_early(e) ==
    LET e1 == [e EXCEPT !.ds[0] = Inc8(@)]
    IN  IF e1.ds[0] = \h59
        THEN [e1 EXCEPT !.ds[0] = 0, !.ds[1] = Inc8(@),
                        !.bits = Or8(@, BIT3)]
        ELSE _time_carry(e1, 0)

\* _time_increment, lines 180-187: second
TI_second(e) ==
    LET e1 == [e EXCEPT !.ds[0] = Inc8(@)]
    IN  IF e1.ds[0] = \h5A
        THEN [e1 EXCEPT !.ds[0] = 0, !.ds[1] = Inc8(@),
                        !.bits = Or8(@, BIT3)]
        ELSE _time_carry(e1, 0)

\* lines 189-194: minute
TI_minute(e) ==
    IF e.ds[1] = \h5A
    THEN [e EXCEPT !.ds[1] = 0, !.ds[2] = Inc8(@)]
    ELSE _time_carry(e, 1)

\* An hour rollover that forgets the day-of-week.
TI_hour_no_day(e) ==
    IF e.ds[2] = \h24
    THEN [e EXCEPT !.ds[2] = 0, !.ds[4] = Inc8(@)]
    ELSE _time_carry(e, 2)

\* lines 196-202: hour
TI_hour(e) ==
    IF e.ds[2] = \h24
    THEN [e EXCEPT !.ds[2] = 0, !.ds[3] = Inc8(@), !.ds[4] = Inc8(@)]
    ELSE _time_carry(e, 2)

\* lines 204-205: day of week
TI_day(e) ==
    IF e.ds[3] = \h08 THEN [e EXCEPT !.ds[3] = 1] ELSE e

\* A date check whose case 0x29 ignores the leap cache.
TI_date_no_leap(e) ==
    LET d == e.ds[4]
        m == e.ds[5]
        roll == [e EXCEPT !.ds[4] = 1, !.ds[5] = Inc8(@)]
    IN  CASE d = \h29 -> e
          [] d = \h30 -> IF m = \h02 THEN roll ELSE e
          [] d = \h31 -> IF m \in {\h04, \h06, \h09, \h11} THEN roll ELSE e
          [] d = \h32 -> IF m \in {\h01, \h03, \h05, \h07, \h08, \h10, \h12}
                         THEN roll ELSE e
          [] OTHER -> _time_carry(e, 4)

\* lines 207-243: date
TI_date(e) ==
    LET d == e.ds[4]
        m == e.ds[5]
        roll == [e EXCEPT !.ds[4] = 1, !.ds[5] = Inc8(@)]
    IN  CASE d = \h29 -> IF m = \h02 /\ e.leap = 0 THEN roll ELSE e
          [] d = \h30 -> IF m = \h02 THEN roll ELSE e
          [] d = \h31 -> IF m \in {\h04, \h06, \h09, \h11} THEN roll ELSE e
          [] d = \h32 -> IF m \in {\h01, \h03, \h05, \h07, \h08, \h10, \h12}
                         THEN roll ELSE e
          [] OTHER -> _time_carry(e, 4)

\* lines 245-251: month
TI_month(e) ==
    IF e.ds[5] = \h13
    THEN [e EXCEPT !.ds[5] = 1, !.ds[6] = Inc8(@), !.bits = Or8(@, BIT2)]
    ELSE _time_carry(e, 5)

\* lines 253-258: year
TI_year(e) ==
    IF e.ds[6] = \h9A
    THEN [e EXCEPT !.ds[6] = 0, !.ds[7] = Inc8(@)]
    ELSE _time_carry(e, 6)

\* lines 260-264: leap cache after a year change
TI_leap(e) ==
    IF And8(e.bits, BIT2) # 0
    THEN [_check_leap_year(e) EXCEPT !.bits = And8(@, Not8(BIT2))]
    ELSE e

\* lines 266-270: century
TI_century(e) ==
    IF e.ds[7] = \h9A THEN [e EXCEPT !.ds[7] = 0] ELSE _time_carry(e, 7)

\* void _time_increment()
_time_increment(e) ==
    TI_century(TI_leap(TI_year(TI_month(TI_date(TI_day(
        TI_hour(TI_minute(TI_second(e)))))))))

\* ------------------------------------------------------------------------
\* Alarm and interrupt engine
\* ------------------------------------------------------------------------

MON == BIT0
TUE == BIT1
WED == BIT2
THU == BIT3
FRI == BIT4
SAT == BIT5
SUN == BIT6

\* _check_alarms, lines 289-313: the day mask bit of the current weekday
DayMaskBit(ds) ==
    CASE ds[3] = \h01 -> MON
      [] ds[3] = \h02 -> TUE
      [] ds[3] = \h03 -> WED
      [] ds[3] = \h04 -> THU
      [] ds[3] = \h05 -> FRI
      [] ds[3] = \h06 -> SAT
      [] ds[3] = \h07 -> SUN
      [] OTHER -> \h00

\* The registers of alarm i (1..6) start at offset 8 + 3 * (i - 1).
AlarmBase(i) == 8 + 3 * (i - 1)
AlarmBit(i) == 2 ^ (i - 1)

\* An alarm condition that ignores the match-any bit of the day mask.
AlarmCond_no_any_day(ds, dmb, i) ==
    /\ ds[1] = ds[AlarmBase(i)]
    /\ ds[2] + \h80 = ds[AlarmBase(i) + 1]
    /\ And8(ds[AlarmBase(i) + 2], dmb) # 0

\* The condition of the if statement of alarm i (lines 316-319 for alarm 1);
\* _DATA_STORE[2] + 0x80 is computed in int and does not wrap.
AlarmCond(ds, dmb, i) ==
    /\ ds[1] = ds[AlarmBase(i)]
    /\ ds[2] + \h80 = ds[AlarmBase(i) + 1]
    /\ (And8(ds[AlarmBase(i) + 2], \h80) # 0
            \/ And8(ds[AlarmBase(i) + 2], dmb) # 0)

\* An if statement that also clears the flag of an alarm that does not match.
AlarmStep_clears(ds, dmb, i) ==
    IF AlarmCond(ds, dmb, i)
    THEN [ds EXCEPT ![30] = Or8(@, AlarmBit(i))]
    ELSE [ds EXCEPT ![30] = And8(@, Not8(AlarmBit(i)))]

\* The if statement of alarm i (lines 316-320 for alarm 1)
AlarmStep(ds, dmb, i) ==
    IF AlarmCond(ds, dmb, i)
    THEN [ds EXCEPT ![30] = Or8(@, AlarmBit(i))]
    ELSE ds

\* An interrupt condition that looks at the flag alone.
IntCond_no_enable(ds, i) ==
    And8(ds[30], AlarmBit(i)) # 0

\* _alarm_interrupt: the outer condition of alarm i (lines 361-362 for alarm 1)
IntCond(ds, i) ==
    And8(ds[30], AlarmBit(i)) # 0 /\ And8(ds[29], AlarmBit(i)) # 0

\* _alarm_interrupt: INT_uni and INT_A1..INT_A6 (lines 357-401)
INT_uni(ds) ==
    IF \E i \in 1..6 : IntCond(ds, i) THEN 1 ELSE 0

INT_A(ds, i) ==
    IF IntCond(ds, i) /\ And8(ds[28], \h80) # 0 THEN 1 ELSE 0

RECURSIVE OrBits(_, _)
OrBits(S, x) ==
    IF S = {} THEN x
    ELSE LET b == CHOOSE c \in S : TRUE IN OrBits(S \ {b}, Or8(x, b))

\* _alarm_interrupt, lines 403-417: the output latches after the call
AlarmInterruptP1(ds, p1) ==
    IF INT_uni(ds) = 1 THEN Or8(p1, BIT5) ELSE p1

AlarmInterruptP2(ds, p2) ==
    OrBits({AlarmBit(i) : i \in {j \in 1..6 : INT_A(ds, j) = 1}}, p2)

\* void _alarm_reset_interrupt()
AlarmResetP1(p1) == And8(p1, Not8(BIT5))
AlarmResetP2(p2) == And8(p2, Not8(BIT0 + BIT1 + BIT2 + BIT3 + BIT4 + BIT5))

\* ------------------------------------------------------------------------
\* I2C callbacks
\* ------------------------------------------------------------------------

\* RX callback, lines 453-455 for BIT0: one flag bit of the incoming byte
\* is cleared when it is clear in the flag register.
FlagBit(flags, byte_data, bit) ==
    IF And8(flags, bit) = 0 /\ And8(byte_data, bit) # 0
    THEN And8(byte_data, Not8(bit))
    ELSE byte_data

\* A flag write that stores the incoming byte as it is.
FlagWrite_verbatim(flags, byte_data) ==
    byte_data

\* A flag write that forgets alarm 6.
FlagWrite_five(flags, byte_data) ==
    FlagBit(flags, FlagBit(flags, FlagBit(flags, FlagBit(flags,
        FlagBit(flags, byte_data, BIT0), BIT1), BIT2), BIT3), BIT4)

\* RX callback, case 30 (lines 452-471): the byte stored at offset 30
FlagWrite(flags, byte_data) ==
    FlagBit(flags, FlagBit(flags, FlagBit(flags, FlagBit(flags,
        FlagBit(flags, FlagBit(flags, byte_data, BIT0), BIT1), BIT2), BIT3),
        BIT4), BIT5)

\* The state the callbacks read and write, as one record.
Bus ==
    [ ds |-> _DATA_STORE, off |-> _I2C_data_offset,
      n |-> _USI_I2C_slave_n_byte, stray |-> stray ]

SetBus(r) ==
    /\ _DATA_STORE' = r.ds
    /\ _I2C_data_offset' = r.off
    /\ _USI_I2C_slave_n_byte' = r.n
    /\ stray' = r.stray

\* A receive callback that leaves the cursor where it is on a discarded byte.
RX_callback_holds_cursor(r, byte_data) ==
    IF r.n = 0
    THEN [r EXCEPT !.off = byte_data, !.n = 1]
    ELSE IF r.off = 26 \/ r.off = 27 THEN r
    ELSE IF r.off = 30
         THEN [r EXCEPT !.ds[30] = FlagWrite(r.ds[30], byte_data),
                        !.off = Inc8(@)]
    ELSE IF r.off \in DOMAIN r.ds
         THEN [r EXCEPT !.ds[r.off] = byte_data, !.off = Inc8(@)]
    ELSE [r EXCEPT !.stray = TRUE, !.off = Inc8(@)]

\* unsigned char USI_I2C_slave_RX_callback(unsigned char * byte); it returns 0.
\* A store at a cursor above 30 lands outside _DATA_STORE: the array is left
\* alone and the store is recorded in stray.
USI_I2C_slave_RX_callback(r, byte_data) ==
    IF r.n = 0
    THEN [r EXCEPT !.off = byte_data, !.n = 1]
    ELSE LET w == IF r.off = 26 \/ r.off = 27 THEN r
                  ELSE IF r.off = 30
                       THEN [r EXCEPT !.ds[30] = FlagWrite(r.ds[30], byte_data)]
                  ELSE IF r.off \in DOMAIN r.ds
                       THEN [r EXCEPT !.ds[r.off] = byte_data]
                  ELSE [r EXCEPT !.stray = TRUE]
         IN  [w EXCEPT !.off = Inc8(@)]

\* Bytes a read through a cursor above 30 may return (memory after the array).
StrayBytes == {\h00, \hFF}

\* unsigned char * USI_I2C_slave_TX_callback(): the bytes the returned pointer
\* may point at; the cursor moves on by one.
TXBytes(r) ==
    IF r.off \in DOMAIN r.ds THEN {r.ds[r.off]} ELSE StrayBytes

\* A transmit callback that forgets to move the cursor.
TX_callback_holds_cursor(r) ==
    r

USI_I2C_slave_TX_callback(r) ==
    [r EXCEPT !.off = Inc8(@)]

\* ------------------------------------------------------------------------
\* Groups of variables
\* ------------------------------------------------------------------------

engineVars ==
    << _DATA_STORE, _is_leap_year, _RTC_action_bits, _RTC_byte_l, _RTC_byte_h >>
scratchVars == << _is_leap_year, _RTC_byte_l, _RTC_byte_h >>
cursorVars == << _I2C_data_offset, _USI_I2C_slave_n_byte, stray >>
usiVars == << _USI_I2C_slave_own_addr, _USI_I2C_slave_state,
              _USI_I2C_slave_RX_buff, USISRL >>
outVars == << P1OUT, P2OUT >>
mainVars == << pc, day_mask_bit >>
counters == << calls, nticks, nbus >>

\* ------------------------------------------------------------------------
\* Timer interrupt
\* ------------------------------------------------------------------------

Toggle(p, bit) == IF And8(p, bit) # 0 THEN p - bit ELSE p + bit

\* A tick handler that never requests the interrupt reset.
Timer_A0_no_reset ==
    /\ nticks < MaxTicks
    /\ nticks' = nticks + 1
    /\ LET t == _second_tick + 1
       IN  /\ _second_tick' = IF t = 16 THEN 0 ELSE t
           /\ _RTC_action_bits' =
                  CASE t = 2 -> Or8(_RTC_action_bits, BIT4)
                    [] t = 12 -> Or8(_RTC_action_bits, BIT0)
                    [] OTHER -> _RTC_action_bits
           /\ P1OUT' = IF t = 8 \/ t = 16 THEN Toggle(P1OUT, BIT0) ELSE P1OUT
    /\ UNCHANGED << _DATA_STORE, scratchVars, cursorVars, usiVars, P2OUT,
                    mainVars, calls, nbus >>

\* A tick handler that toggles the square wave at tick 16 only.
Timer_A0_one_toggle ==
    /\ nticks < MaxTicks
    /\ nticks' = nticks + 1
    /\ LET t == _second_tick + 1
       IN  /\ _second_tick' = IF t = 16 THEN 0 ELSE t
           /\ _RTC_action_bits' =
                  CASE t = 2 -> Or8(_RTC_action_bits, BIT4)
                    [] t = 6 -> Or8(_RTC_action_bits, BIT5)
                    [] t = 12 -> Or8(_RTC_action_bits, BIT0)
                    [] OTHER -> _RTC_action_bits
           /\ P1OUT' = IF t = 16 THEN Toggle(P1OUT, BIT0) ELSE P1OUT
    /\ UNCHANGED << _DATA_STORE, scratchVars, cursorVars, usiVars, P2OUT,
                    mainVars, calls, nbus >>

\* __interrupt void Timer_A0(void)
Timer_A0 ==
    /\ nticks < MaxTicks
    /\ nticks' = nticks + 1
    /\ LET t == _second_tick + 1
       IN  /\ _second_tick' = IF t = 16 THEN 0 ELSE t
           /\ _RTC_action_bits' =
                  CASE t = 2 -> Or8(_RTC_action_bits, BIT4)
                    [] t = 6 -> Or8(_RTC_action_bits, BIT5)
                    [] t = 12 -> Or8(_RTC_action_bits, BIT0)
                    [] OTHER -> _RTC_action_bits
           /\ P1OUT' = IF t = 8 \/ t = 16 THEN Toggle(P1OUT, BIT0) ELSE P1OUT
    /\ UNCHANGED << _DATA_STORE, scratchVars, cursorVars, usiVars, P2OUT,
                    mainVars, calls, nbus >>

\* ------------------------------------------------------------------------
\* USI interrupt: one action for the start condition and one for each state
\* in which the counter interrupt arrives
\* ------------------------------------------------------------------------

_I2C_addr == \h41
_I2C_addr_op1 == \h43

\* A start condition that leaves the byte-count tracker as it is.
USI_start_keeps_count ==
    /\ nbus < MaxBus
    /\ nbus' = nbus + 1
    /\ USISRL' = \h00
    /\ _USI_I2C_slave_state' = 3
    /\ _USI_I2C_slave_n_byte' = _USI_I2C_slave_n_byte
    /\ UNCHANGED << engineVars, _second_tick, _I2C_data_offset, stray,
                    _USI_I2C_slave_own_addr, _USI_I2C_slave_RX_buff, outVars,
                    mainVars, calls, nticks >>

\* A start condition: lines 35-42, then case 2 of the switch in the same call.
USI_start ==
    /\ nbus < MaxBus
    /\ nbus' = nbus + 1
    /\ USISRL' = \h00
    /\ _USI_I2C_slave_state' = 3
    /\ _USI_I2C_slave_n_byte' = 0
    /\ UNCHANGED << engineVars, _second_tick, _I2C_data_offset, stray,
                    _USI_I2C_slave_own_addr, _USI_I2C_slave_RX_buff, outVars,
                    mainVars, calls, nticks >>

\* An address check that accepts both provisioned addresses.
USI_case3_either(addrs) ==
    /\ nbus < MaxBus
    /\ _USI_I2C_slave_state = 3
    /\ nbus' = nbus + 1
    /\ \E a \in addrs :
          IF a \div 2 \notin {_I2C_addr, _I2C_addr_op1}
          THEN /\ USISRL' = \hFF
               /\ _USI_I2C_slave_state' = 6
          ELSE /\ USISRL' = \h00
               /\ _USI_I2C_slave_state' = IF a % 2 = 0 THEN 11 ELSE 12
    /\ UNCHANGED << engineVars, _second_tick, cursorVars,
                    _USI_I2C_slave_own_addr, _USI_I2C_slave_RX_buff, outVars,
                    mainVars, calls, nticks >>

\* case 3: the address byte a is in the shift register.
USI_case3(addrs) ==
    /\ nbus < MaxBus
    /\ _USI_I2C_slave_state = 3
    /\ nbus' = nbus + 1
    /\ \E a \in addrs :
          IF a \div 2 # _USI_I2C_slave_own_addr
          THEN /\ USISRL' = \hFF
               /\ _USI_I2C_slave_state' = 6
          ELSE /\ USISRL' = \h00
               /\ _USI_I2C_slave_state' =
                      IF _USI_I2C_slave_own_addr * 2 = a THEN 11 ELSE 12
    /\ UNCHANGED << engineVars, _second_tick, cursorVars,
                    _USI_I2C_slave_own_addr, _USI_I2C_slave_RX_buff, outVars,
                    mainVars, calls, nticks >>

\* case 6, case 11, case 14: the state moves on, no data is touched.
USI_step(from, to) ==
    /\ nbus < MaxBus
    /\ _USI_I2C_slave_state = from
    /\ nbus' = nbus + 1
    /\ _USI_I2C_slave_state' = to
    /\ UNCHANGED << engineVars, _second_tick, cursorVars,
                    _USI_I2C_slave_own_addr, _USI_I2C_slave_RX_buff, USISRL,
                    outVars, mainVars, calls, nticks >>

USI_case6 == USI_step(6, 0)
USI_case11 == USI_step(11, 13)
USI_case14 == USI_step(14, 15)

\* The transmit branch of case 12 and case 15.
USI_send ==
    /\ \E v \in TXBytes(Bus) : USISRL' = v
    /\ SetBus(USI_I2C_slave_TX_callback(Bus))
    /\ _USI_I2C_slave_state' = 14

\* case 12: send the first data byte.
USI_case12 ==
    /\ nbus < MaxBus
    /\ _USI_I2C_slave_state = 12
    /\ nbus' = nbus + 1
    /\ USI_send
    /\ UNCHANGED << scratchVars, _RTC_action_bits, _second_tick,
                    _USI_I2C_slave_own_addr, _USI_I2C_slave_RX_buff, outVars,
                    mainVars, calls, nticks >>

\* case 13: the received byte b is in the shift register; a first byte is
\* drawn from offs and a later one from data.
USI_case13(offs, data) ==
    /\ nbus < MaxBus
    /\ _USI_I2C_slave_state = 13
    /\ nbus' = nbus + 1
    /\ \E b \in (IF _USI_I2C_slave_n_byte = 0 THEN offs ELSE data) :
          /\ _USI_I2C_slave_RX_buff' = b
          /\ SetBus(USI_I2C_slave_RX_callback(Bus, b))
    /\ USISRL' = \h00
    /\ _USI_I2C_slave_state' = 11
    /\ UNCHANGED << scratchVars, _RTC_action_bits, _second_tick,
                    _USI_I2C_slave_own_addr, outVars, mainVars, calls, nticks >>

\* case 15: the host's acknowledge bit is bit 0 of the shift register.
USI_case15 ==
    /\ nbus < MaxBus
    /\ _USI_I2C_slave_state = 15
    /\ nbus' = nbus + 1
    /\ \E ack \in {0, 1} :
          IF ack = 1
          THEN /\ _USI_I2C_slave_state' = 0
               /\ UNCHANGED << _DATA_STORE, cursorVars, USISRL >>
          ELSE USI_send
    /\ UNCHANGED << scratchVars, _RTC_action_bits, _second_tick,
                    _USI_I2C_slave_own_addr, _USI_I2C_slave_RX_buff, outVars,
                    mainVars, calls, nticks >>

\* ------------------------------------------------------------------------
\* main(): the loop of lines 123-140, one action for each statement.
\* pc names the line about to execute.
\* ------------------------------------------------------------------------

\* if (_RTC_action_bits & bit)
MainTest(line, bit, then, else) ==
    /\ pc = line
    /\ pc' = IF And8(_RTC_action_bits, bit) # 0 THEN then ELSE else
    /\ UNCHANGED << engineVars, _second_tick, cursorVars, usiVars, outVars,
                    day_mask_bit, counters >>

\* _RTC_action_bits &= ~bit
MainClear(line, bit, next) ==
    /\ pc = line
    /\ _RTC_action_bits' = And8(_RTC_action_bits, Not8(bit))
    /\ pc' = next
    /\ UNCHANGED << _DATA_STORE, scratchVars, _second_tick, cursorVars,
                    usiVars, outVars, day_mask_bit, counters >>

main_L124 == MainTest("L124", BIT0, "L125", "L128")

main_L125 ==
    /\ pc = "L125"
    /\ SetEngine(_time_increment(Engine))
    /\ pc' = "L126"
    /\ UNCHANGED << _second_tick, cursorVars, usiVars, outVars, day_mask_bit,
                    counters >>

\* A line 126 that leaves the request in place.
main_L126_keeps_request ==
    /\ pc = "L126"
    /\ pc' = "L128"
    /\ UNCHANGED << engineVars, _second_tick, cursorVars, usiVars, outVars,
                    day_mask_bit, counters >>

main_L126 == MainClear("L126", BIT0, "L128")

main_L128 == MainTest("L128", BIT3, "L129", "L132")

\* The if statements of alarms 1..6 in _check_alarms start at these lines.
AlarmLine == << "L316", "L322", "L328", "L334", "L340", "L346" >>

\* The call of _check_alarms: lines 289-313 set day_mask_bit.
main_L129 ==
    /\ pc = "L129"
    /\ day_mask_bit' = DayMaskBit(_DATA_STORE)
    /\ pc' = AlarmLine[1]
    /\ UNCHANGED << engineVars, _second_tick, cursorVars, usiVars, outVars,
                    counters >>

\* _check_alarms: the if statement of alarm i; the call returns after the sixth.
_check_alarms_if ==
    /\ \E i \in 1..6 :
          /\ pc = AlarmLine[i]
          /\ _DATA_STORE' = AlarmStep(_DATA_STORE, day_mask_bit, i)
          /\ pc' = IF i < 6 THEN AlarmLine[i + 1] ELSE "L130"
          /\ day_mask_bit' = IF i < 6 THEN day_mask_bit ELSE 0
    /\ UNCHANGED << scratchVars, _RTC_action_bits, _second_tick, cursorVars,
                    usiVars, outVars, counters >>

main_L130 == MainClear("L130", BIT3, "L132")

\* A line 132 that tests the reset request.
main_L132_tests_reset == MainTest("L132", BIT5, "L133", "L136")

main_L132 == MainTest("L132", BIT4, "L133", "L136")

\* The call of _alarm_interrupt
main_L133 ==
    /\ pc = "L133"
    /\ P1OUT' = AlarmInterruptP1(_DATA_STORE, P1OUT)
    /\ P2OUT' = AlarmInterruptP2(_DATA_STORE, P2OUT)
    /\ pc' = "L134"
    /\ UNCHANGED << engineVars, _second_tick, cursorVars, usiVars,
                    day_mask_bit, counters >>

main_L134 == MainClear("L134", BIT4, "L136")

main_L136 == MainTest("L136", BIT5, "L137", "L124")

\* The call of _alarm_reset_interrupt
main_L137 ==
    /\ pc = "L137"
    /\ P1OUT' = AlarmResetP1(P1OUT)
    /\ P2OUT' = AlarmResetP2(P2OUT)
    /\ pc' = "L138"
    /\ UNCHANGED << engineVars, _second_tick, cursorVars, usiVars,
                    day_mask_bit, counters >>

main_L138 == MainClear("L138", BIT5, "L124")

Main ==
    \/ main_L124 \/ main_L125 \/ main_L126
    \/ main_L128 \/ main_L129 \/ _check_alarms_if \/ main_L130
    \/ main_L132 \/ main_L133 \/ main_L134
    \/ main_L136 \/ main_L137 \/ main_L138

\* ------------------------------------------------------------------------
\* Start-up
\* ------------------------------------------------------------------------

\* void _init_DS() on the zero-initialised array
_init_DS ==
    [k \in 0..30 |->
        CASE k = 3 -> \h06 [] k = 4 -> \h01 [] k = 5 -> \h01 [] k = 7 -> \h20
          [] OTHER -> \h00]

\* P1OUT after lines 84-90
P1OUT_init == BIT3 + BIT6 + BIT7

\* The registers ds with the main loop idle at line 124 and the USI state
\* machine idle, as a host leaves it after reading n bytes from offset 0.
Idle(ds, leap, tick, own, off) ==
    /\ _DATA_STORE = ds
    /\ _second_tick = tick
    /\ _is_leap_year = leap
    /\ _I2C_data_offset = off
    /\ _RTC_action_bits = \h00
    /\ _RTC_byte_l = \h00
    /\ _RTC_byte_h = \h00
    /\ _USI_I2C_slave_n_byte = 0
    /\ _USI_I2C_slave_own_addr = own
    /\ _USI_I2C_slave_state = 0
    /\ _USI_I2C_slave_RX_buff = \h00
    /\ USISRL = \h00
    /\ P1OUT = P1OUT_init
    /\ P2OUT = \h00
    /\ pc = "L124"
    /\ day_mask_bit = \h00
    /\ stray = FALSE
    /\ calls = 0
    /\ nticks = 0
    /\ nbus = 0

\* main(), lines 77-121: the state when the loop is entered; the strap input
\* P1.3 selects the address.
\* The leap cache _check_leap_year computes for the registers ds.
LeapOf(ds) ==
    _check_leap_year([ds |-> ds, leap |-> 0, bits |-> 0, bl |-> 0, bh |-> 0]).leap

Boot ==
    \E own \in {_I2C_addr, _I2C_addr_op1} :
        Idle(_init_DS, LeapOf(_init_DS), 0, own, 0)

\* ------------------------------------------------------------------------
\* Register states the clock passes through
\* ------------------------------------------------------------------------

ToBCD(n) == (n \div 10) * 16 + (n % 10)
BCDRange(lo, hi) == {ToBCD(n) : n \in lo..hi}

\* The last date _time_increment leaves standing in month m (BCD), by the
\* rollover table of lines 207-243.
MonthDays(m, leap) ==
    CASE m = \h02 -> IF leap = 1 THEN \h29 ELSE \h28
      [] m \in {\h04, \h06, \h09, \h11} -> \h30
      [] OTHER -> \h31

\* The register file with time t and the bytes of rest from offset 8 on.
TimeRegs(t, rest) ==
    [k \in 0..30 |->
        CASE k = 0 -> t.sec [] k = 1 -> t.min [] k = 2 -> t.hour
          [] k = 3 -> t.dow [] k = 4 -> t.date [] k = 5 -> t.month
          [] k = 6 -> t.year [] k = 7 -> t.cent
          [] OTHER -> rest[k]]

Zeros == [k \in 0..30 |-> \h00]

YearLeap(y) == LeapOf([Zeros EXCEPT ![6] = y])

\* Times with every field at a value next to one of its rollovers.
BorderTimes ==
    { [sec |-> s, min |-> mi, hour |-> h, dow |-> w, date |-> d,
       month |-> mo, year |-> y, cent |-> c] :
        s \in {\h00, \h09, \h59}, mi \in {\h09, \h59}, h \in {\h19, \h23},
        w \in {\h06, \h07}, d \in {\h09, \h28, \h29, \h30, \h31},
        mo \in {\h01, \h02, \h04, \h09, \h12},
        y \in {\h00, \h04, \h09, \h99}, c \in {\h20, \h99} }

\* The last second of the day 99-12-31 of century 99, and the start-up time.
Edge ==
    [sec |-> \h59, min |-> \h59, hour |-> \h23, dow |-> \h07, date |-> \h31,
     month |-> \h12, year |-> \h99, cent |-> \h99]
Epoch ==
    [sec |-> \h00, min |-> \h00, hour |-> \h00, dow |-> \h06, date |-> \h01,
     month |-> \h01, year |-> \h00, cent |-> \h20]

\* Times with one field running over its whole range.
FreeTimes ==
    UNION {
        { [b EXCEPT !.sec = s] : s \in BCDRange(0, 59), b \in {Edge, Epoch} },
        { [b EXCEPT !.min = mi] : mi \in BCDRange(0, 59), b \in {Edge} },
        { [b EXCEPT !.hour = h] : h \in BCDRange(0, 23), b \in {Edge} },
        { [b EXCEPT !.dow = w] : w \in BCDRange(1, 7), b \in {Edge} },
        { [b EXCEPT !.date = d, !.month = mo, !.year = y] :
            d \in BCDRange(1, 31), mo \in BCDRange(1, 12), y \in {\h00, \h04},
            b \in {Edge} },
        { [b EXCEPT !.year = y, !.date = d, !.month = mo] :
            y \in BCDRange(0, 99),
            d \in {\h28, \h31}, mo \in {\h02, \h12}, b \in {Edge} },
        { [b EXCEPT !.cent = c] : c \in BCDRange(0, 99), b \in {Edge} } }

\* A time the clock shows when it runs from start-up with no host write:
\* the date is a day of its month for the leap cache of its year.
Calendar(t) ==
    t.date <= MonthDays(t.month, YearLeap(t.year))

ClockTimes == {t \in BorderTimes \cup FreeTimes : Calendar(t)}

\* ------------------------------------------------------------------------
\* SpecTime: the register file under successive calls of _time_increment,
\* as the main loop makes them once a second when no host writes.
\* ------------------------------------------------------------------------

Call_time_increment ==
    /\ calls < MaxCalls
    /\ calls' = calls + 1
    /\ SetEngine(_time_increment(Engine))
    /\ UNCHANGED << _second_tick, cursorVars, usiVars, outVars, mainVars,
                    nticks, nbus >>

InitTime ==
    \/ Boot
    \/ \E t \in ClockTimes :
          Idle(TimeRegs(t, Zeros), YearLeap(t.year), 0, _I2C_addr, 0)

SpecTime == InitTime /\ [][Call_time_increment]_vars

\* ------------------------------------------------------------------------
\* SpecRegs: calls of _time_increment on register files a host has written:
\* every time field in its range, any date, any leap cache, alarms set.
\* ------------------------------------------------------------------------

\* Alarm, configuration and flag bytes as a host and the alarm engine leave
\* them; offsets 26 and 27 are never written.
Pattern ==
    [k \in 0..30 |->
        CASE k \in 8..25 -> \h80 + k
          [] k = 28 -> \h80
          [] k = 29 -> \h3F
          [] k = 30 -> \h05
          [] OTHER -> \h00]

RegDates == {\h01, \h09, \h28, \h29, \h30, \h31, \h32}
RegMonths == {\h01, \h02, \h04, \h09, \h12}

RegTimes ==
    { [sec |-> s, min |-> mi, hour |-> h, dow |-> w, date |-> d,
       month |-> mo, year |-> y, cent |-> c] :
        s \in {\h00, \h09, \h58, \h59}, mi \in {\h09, \h59},
        h \in {\h19, \h23}, w \in {\h01, \h07}, d \in RegDates,
        mo \in RegMonths, y \in {\h00, \h04, \h99}, c \in {\h20, \h99} }
    \cup
    { [Epoch EXCEPT !.sec = s, !.date = d, !.month = mo] :
        s \in BCDRange(0, 59), d \in RegDates, mo \in RegMonths }

InitRegs ==
    \E t \in RegTimes, leap \in {0, 1} :
        Idle(TimeRegs(t, Pattern), leap, 0, _I2C_addr, 0)

SpecRegs == InitRegs /\ [][Call_time_increment]_vars

\* ------------------------------------------------------------------------
\* Vocabulary of the properties
\* ------------------------------------------------------------------------

IsBCD(v) == v \div 16 <= 9 /\ v % 16 <= 9
FromBCD(v) == (v \div 16) * 10 + (v % 16)
InRange(v, lo, hi) == IsBCD(v) /\ FromBCD(v) \in lo..hi

\* v and w are BCD and w counts one more than v.
BCDNext(v, w) == IsBCD(v) /\ IsBCD(w) /\ FromBCD(w) = FromBCD(v) + 1

sec == _DATA_STORE[0]
minute == _DATA_STORE[1]
hour == _DATA_STORE[2]
dow == _DATA_STORE[3]
date == _DATA_STORE[4]
month == _DATA_STORE[5]
year == _DATA_STORE[6]
century == _DATA_STORE[7]

\* Every time field is two BCD digits and lies in its range.
FieldsInRange ==
    /\ InRange(sec, 0, 59) /\ InRange(minute, 0, 59) /\ InRange(hour, 0, 23)
    /\ dow \in 1..7 /\ IsBCD(date) /\ InRange(month, 1, 12)
    /\ InRange(year, 0, 99) /\ InRange(century, 0, 99)

\* The step is a completed call of _time_increment.
Advanced == calls' = calls + 1

LastSecondOfDay == sec = \h59 /\ minute = \h59 /\ hour = \h23

\* ------------------------------------------------------------------------
\* C1
\* ------------------------------------------------------------------------

\* C1: running from start-up with no host write, after every completed
\* _time_increment each byte at offsets 0..7 is two BCD digits and lies in
\* its field range (seconds, minutes 00..59, hours 00..23, day-of-week 1..7,
\* month 01..12, year and century 00..99).
C1_FieldsValid ==
    calls > 0 => FieldsInRange

\* The advance from 99-12-31 23:59:59 of century 99 has carried every field.
C1_Witness ==
    /\ calls = 1
    /\ sec = 0 /\ minute = 0 /\ hour = 0 /\ dow = 1 /\ date = 1 /\ month = 1
    /\ year = 0 /\ century = 0

\* ------------------------------------------------------------------------
\* C4
\* ------------------------------------------------------------------------

\* C4: day-of-week advances by one, wrapping 7 to 1, in exactly the advances
\* in which hours roll from 23 to 00, and in each of them the date advances
\* too (by increment or by rollover to 01 of the next month); in every other
\* advance day-of-week is unchanged; day-of-week is always in 1..7.
C4_DayOfWeek ==
    [][Advanced =>
        LET rolls == hour = \h23 /\ hour' = \h00
        IN  /\ dow' \in 1..7
            /\ rolls => /\ dow' = IF dow = 7 THEN 1 ELSE dow + 1
                        /\ \/ BCDNext(date, date')
                           \/ date' = \h01 /\ month' # month
            /\ ~rolls => dow' = dow]_vars

\* Sunday 23:59:59 on the 9th has become Monday 00:00:00 on the 10th.
C4_Witness ==
    /\ calls = 1
    /\ sec = 0 /\ minute = 0 /\ hour = 0 /\ dow = 1 /\ date = \h10

\* ------------------------------------------------------------------------
\* C2
\* ------------------------------------------------------------------------

\* C2: with valid time fields and seconds in 00..58 an advance increments
\* seconds by one in BCD and leaves every other register byte (minutes,
\* hours, day-of-week, date, month, year, century, alarms, configuration,
\* flags) unchanged.
C2_SecondsOnly ==
    [][(Advanced /\ FieldsInRange /\ InRange(sec, 0, 58)) =>
        /\ BCDNext(sec, sec')
        /\ \A k \in 1..30 : _DATA_STORE'[k] = _DATA_STORE[k]]_vars

\* ------------------------------------------------------------------------
\* C5
\* ------------------------------------------------------------------------

FebNonLeap == month = \h02 /\ _is_leap_year = 0

\* The claim as stated: in February with the leap cache clear, the advance
\* from 28 at 23:59:59 yields date 29 in February, and an advance from date
\* 29 yields 1 March.
C5_Original ==
    [][(Advanced /\ FieldsInRange /\ FebNonLeap) =>
        /\ (date = \h28 /\ LastSecondOfDay) => (date' = \h29 /\ month' = \h02)
        /\ date = \h29 => (date' = \h01 /\ month' = \h03)]_vars

\* C5 (amended): in February with the leap cache clear, the advance from 28
\* at 23:59:59 carries the date to 29 and rolls it over in the same call,
\* yielding 1 March; an advance from a stored date 29 yields 1 March when it
\* does not start at 23:59:59, and when it does it carries the date to 30
\* with the month still February.
C5_February ==
    [][(Advanced /\ FieldsInRange /\ FebNonLeap) =>
        /\ (date = \h28 /\ LastSecondOfDay) => (date' = \h01 /\ month' = \h03)
        /\ (date = \h29 /\ ~LastSecondOfDay) => (date' = \h01 /\ month' = \h03)
        /\ (date = \h29 /\ LastSecondOfDay) => (date' = \h30 /\ month' = \h02)]_vars

\* 28 February 23:59:59 of the non-leap year 99 has become 1 March 00:00:00.
C5_Witness ==
    /\ calls = 1
    /\ sec = 0 /\ minute = 0 /\ hour = 0 /\ date = \h01 /\ month = \h03
    /\ year = \h99 /\ _is_leap_year = 0

\* ------------------------------------------------------------------------
\* SpecLeap: calls of _check_leap_year (main line 113, _time_increment line
\* 262) for every year and century, whatever the cache held before.
\* ------------------------------------------------------------------------

Call_check_leap_year ==
    /\ calls < MaxCalls
    /\ calls' = calls + 1
    /\ SetEngine(_check_leap_year(Engine))
    /\ UNCHANGED << _second_tick, cursorVars, usiVars, outVars, mainVars,
                    nticks, nbus >>

InitLeap ==
    \E y \in BCDRange(0, 99), c \in BCDRange(0, 99), leap \in {0, 1} :
        Idle(TimeRegs([Epoch EXCEPT !.year = y, !.cent = c], Zeros),
             leap, 0, _I2C_addr, 0)

SpecLeap == InitLeap /\ [][Call_check_leap_year]_vars

\* ------------------------------------------------------------------------
\* C6
\* ------------------------------------------------------------------------

\* The leap rule in terms of the two decimal digits of the year.
LeapDigits(y) ==
    LET tens == y \div 16
        units == y % 16
    IN  \/ tens % 2 = 1 /\ units \in {2, 6}
        \/ tens % 2 = 0 /\ units \in {4, 8}

\* C6: for every BCD year 00..99 and every century, _check_leap_year sets
\* the leap cache to 1 exactly when (tens digit odd and units digit 2 or 6)
\* or (tens digit even and units digit 4 or 8), and to 0 otherwise; years
\* ending in 0 are never leap and the century has no influence.
C6_LeapRule ==
    calls > 0 =>
        /\ _is_leap_year = (IF LeapDigits(year) THEN 1 ELSE 0)
        /\ year % 16 = 0 => _is_leap_year = 0

\* Year 12 of century 19 has been found leap.
C6_Witness ==
    calls = 1 /\ year = \h12 /\ century = \h19 /\ _is_leap_year = 1

\* ------------------------------------------------------------------------
\* SpecAlarm: one call of _check_alarms from line 129 at 14:30:00, on every
\* weekday, with alarms a host has stored.
\* ------------------------------------------------------------------------

\* The bytes from offset 8 on: alarm 1 (minute 0x30, hour h1, mask m1),
\* alarm 2 on the weekdays of m2, alarm 3 a minute late, alarm 4 on all
\* seven weekdays, alarm 5 unset, alarm 6 on any day; initial flags f.
AlarmRegs(h1, m1, m2, f) ==
    [k \in 0..30 |->
        CASE k = 8 -> \h30 [] k = 9 -> h1 [] k = 10 -> m1
          [] k = 11 -> \h30 [] k = 12 -> \h94 [] k = 13 -> m2
          [] k = 14 -> \h31 [] k = 15 -> \h94 [] k = 16 -> \h80
          [] k = 17 -> \h30 [] k = 18 -> \h94 [] k = 19 -> \h7F
          [] k = 23 -> \h30 [] k = 24 -> \h94 [] k = 25 -> \h80
          [] k = 29 -> \h3F
          [] k = 30 -> f
          [] OTHER -> \h00]

\* The main loop at line pcv with the action bits pending, registers ds.
AtLine(ds, pcv, bits, tick, p1, p2) ==
    /\ _DATA_STORE = ds
    /\ _second_tick = tick
    /\ _is_leap_year = LeapOf(ds)
    /\ _I2C_data_offset = 0
    /\ _RTC_action_bits = bits
    /\ _RTC_byte_l = \h00
    /\ _RTC_byte_h = \h00
    /\ _USI_I2C_slave_n_byte = 0
    /\ _USI_I2C_slave_own_addr = _I2C_addr
    /\ _USI_I2C_slave_state = 0
    /\ _USI_I2C_slave_RX_buff = \h00
    /\ USISRL = \h00
    /\ P1OUT = p1
    /\ P2OUT = p2
    /\ pc = pcv
    /\ day_mask_bit = \h00
    /\ stray = FALSE
    /\ calls = 0
    /\ nticks = 0
    /\ nbus = 0

InitAlarm ==
    \E w \in 1..7, h1 \in {\h14, \h8E, \h94},
       m1 \in {\h00, \h7F, \h80, \h81, \hFF},
       m2 \in {\h00, MON, SAT + SUN}, f \in {\h00, \h02} :
        AtLine(TimeRegs([Epoch EXCEPT !.min = \h30, !.hour = \h14, !.dow = w],
                        AlarmRegs(h1, m1, m2, f)),
               "L129", BIT3, 12, P1OUT_init, \h00)

NextAlarm == main_L129 \/ _check_alarms_if \/ main_L130

SpecAlarm == InitAlarm /\ [][NextAlarm]_vars

\* ------------------------------------------------------------------------
\* C7
\* ------------------------------------------------------------------------

\* Bit n of byte v is set.
BitSet(v, n) == (v \div (2 ^ n)) % 2 = 1

\* Alarm 1 is stored as minute 0x30, hour h, a day mask with bit 7 set, and
\* the live time is 14:30 on a weekday 1..7.
C7_Case(h) ==
    /\ _DATA_STORE[8] = \h30 /\ _DATA_STORE[9] = h
    /\ BitSet(_DATA_STORE[10], 7)
    /\ minute = \h30 /\ hour = \h14 /\ dow \in 1..7

\* The claim as stated: with the hour of alarm 1 stored as 0x8E, _check_alarms
\* sets the alarm-1 flag.
C7_Original ==
    (pc = "L130" /\ C7_Case(\h8E)) => BitSet(_DATA_STORE[30], 0)

\* C7 (amended): with alarm 1 stored as minute 0x30, hour 0x94 (the BCD hour
\* 0x14 plus the match-enable bit 0x80) and a day mask with bit 7 set, and
\* the live time at 14:30 on any weekday 1..7, _check_alarms sets the
\* alarm-1 flag (bit 0 of offset 30).
C7_AlarmMatch ==
    (pc = "L130" /\ C7_Case(\h94)) => BitSet(_DATA_STORE[30], 0)

\* _check_alarms has returned on a Sunday with the flag of alarm 1 raised.
C7_Witness ==
    pc = "L130" /\ C7_Case(\h94) /\ dow = 7 /\ BitSet(_DATA_STORE[30], 0)

\* ------------------------------------------------------------------------
\* SpecIrq: one call of _alarm_interrupt from line 133, for every value of
\* the six flags and a choice of enable masks, configurations and output
\* levels (an output is still high when no reset ran since the last call).
\* ------------------------------------------------------------------------

IrqRegs(cfg, en, f) ==
    [Pattern EXCEPT ![28] = cfg, ![29] = en, ![30] = f]

InitIrq ==
    \E f \in 0..63, en \in {\h00, \h01, \h2A, \h3F},
       cfg \in {\h00, \h7F, \h80},
       p1 \in {P1OUT_init, P1OUT_init + BIT0, P1OUT_init + BIT5},
       p2 \in {\h00, \h15} :
        AtLine(TimeRegs(Epoch, IrqRegs(cfg, en, f)), "L133", BIT4, 2, p1, p2)

NextIrq == main_L133 \/ main_L134

SpecIrq == InitIrq /\ [][NextIrq]_vars

\* ------------------------------------------------------------------------
\* C8
\* ------------------------------------------------------------------------

\* Alarm i (1..6) has its flag bit and its enable bit set.
Fired(i) == BitSet(_DATA_STORE[30], i - 1) /\ BitSet(_DATA_STORE[29], i - 1)

OutputsLow == ~BitSet(P1OUT, 5) /\ \A i \in 1..6 : ~BitSet(P2OUT, i - 1)

\* C8: with all interrupt outputs low beforehand, after _alarm_interrupt the
\* unison output (P1.5) is high iff some alarm has flag and enable set, and
\* the dedicated output of alarm i (P2.(i-1)) is high iff alarm i has flag
\* and enable set and bit 7 of offset 28 is set; the call never lowers an
\* output and never changes the register file.
C8_DriveInterrupts ==
    [][(pc = "L133" /\ pc' = "L134") =>
        /\ _DATA_STORE' = _DATA_STORE
        /\ \A n \in 0..7 : /\ BitSet(P1OUT, n) => BitSet(P1OUT', n)
                           /\ BitSet(P2OUT, n) => BitSet(P2OUT', n)
        /\ OutputsLow =>
             /\ BitSet(P1OUT', 5) <=> \E i \in 1..6 : Fired(i)
             /\ \A i \in 1..6 :
                   BitSet(P2OUT', i - 1) <=>
                       (Fired(i) /\ BitSet(_DATA_STORE[28], 7))]_vars

\* Of the flagged alarms 1, 2, 3 only alarm 2 is enabled: the unison output
\* and the dedicated output of alarm 2 have gone high.
C8_Witness ==
    /\ pc = "L134"
    /\ _DATA_STORE[30] = \h07 /\ _DATA_STORE[29] = \h2A
    /\ _DATA_STORE[28] = \h80
    /\ P1OUT = P1OUT_init + BIT5 /\ P2OUT = \h02

\* ------------------------------------------------------------------------
\* SpecRX: the USI interrupt in state 13 with the cursor at offset 30 (the
\* host has sent the offset byte 30), for every flag register and every
\* incoming byte.
\* ------------------------------------------------------------------------

\* The registers ds with the receiver waiting for a data byte at cursor off.
Receiving(ds, off) ==
    /\ _DATA_STORE = ds
    /\ _second_tick = 0
    /\ _is_leap_year = LeapOf(ds)
    /\ _I2C_data_offset = off
    /\ _RTC_action_bits = \h00
    /\ _RTC_byte_l = \h00
    /\ _RTC_byte_h = \h00
    /\ _USI_I2C_slave_n_byte = 1
    /\ _USI_I2C_slave_own_addr = _I2C_addr
    /\ _USI_I2C_slave_state = 13
    /\ _USI_I2C_slave_RX_buff = off
    /\ USISRL = \h00
    /\ P1OUT = P1OUT_init
    /\ P2OUT = \h00
    /\ pc = "L124"
    /\ day_mask_bit = \h00
    /\ stray = FALSE
    /\ calls = 0
    /\ nticks = 0
    /\ nbus = 0

InitRX ==
    \E f \in Byte :
        Receiving(TimeRegs(Epoch, [Pattern EXCEPT ![30] = f]), 30)

NextRX == USI_case13(Byte, Byte)

SpecRX == InitRX /\ [][NextRX]_vars

\* ------------------------------------------------------------------------
\* C10
\* ------------------------------------------------------------------------

\* The step stores a received data byte with the cursor at offset 30.
FlagWriteStep ==
    /\ _USI_I2C_slave_state = 13 /\ _USI_I2C_slave_state' = 11
    /\ _USI_I2C_slave_n_byte = 1 /\ _I2C_data_offset = 30

\* The claim as stated: over all eight bits, no bit of the stored result is
\* 1 where the flag register held 0.
C10_Original ==
    [][FlagWriteStep =>
        \A n \in 0..7 :
            BitSet(_DATA_STORE'[30], n) => BitSet(_DATA_STORE[30], n)]_vars

\* C10 (amended): for every value f of the register at offset 30 and every
\* byte b written at cursor 30, the stored result r has no 1 among the six
\* flag bits 0..5 where f has 0 (r AND NOT f AND 0x3F = 0) and has there
\* only 1s that b has; bits 6 and 7 of r are those of b, whatever f holds.
C10_FlagWrite ==
    [][FlagWriteStep =>
        /\ \A n \in 0..5 :
              BitSet(_DATA_STORE'[30], n) <=>
                  (BitSet(_DATA_STORE[30], n)
                       /\ BitSet(_USI_I2C_slave_RX_buff', n))
        /\ \A n \in 6..7 :
              BitSet(_DATA_STORE'[30], n) <=>
                  BitSet(_USI_I2C_slave_RX_buff', n)]_vars

\* The byte 0xFF written over the flags 0x05 has stored 0xC5.
C10_Witness ==
    /\ _USI_I2C_slave_state = 11 /\ _I2C_data_offset = 31
    /\ _USI_I2C_slave_RX_buff = \hFF /\ _DATA_STORE[30] = \hC5

\* ------------------------------------------------------------------------
\* Spec: the whole program. The timer interrupt, the USI interrupt and the
\* statements of the main loop interleave; the host addresses the device or
\* another one, reads, or writes one byte at a time.
\* ------------------------------------------------------------------------

\* Address bytes on the bus: write and read of either strap address.
HostAddrs == {2 * _I2C_addr, 2 * _I2C_addr + 1,
              2 * _I2C_addr_op1, 2 * _I2C_addr_op1 + 1}

\* Offsets the host selects and data bytes it writes.
HostOffsets == {3, 30, 31}
HostData == {\h01, \h3F}

\* The device some time after start-up: the host has set alarms for 14:30
\* and 14:31, the clock is about to roll a second or a minute, and the timer
\* is one tick before the time increment.
Running ==
    \E t \in { [Epoch EXCEPT !.sec = \h59, !.min = \h29, !.hour = \h14],
               [Epoch EXCEPT !.sec = \h59, !.min = \h59, !.hour = \h14],
               [Epoch EXCEPT !.sec = \h09, !.min = \h30, !.hour = \h14] },
       w \in {\h01, \h06}, f \in {\h00, \h15} :
        LET ds == TimeRegs([t EXCEPT !.dow = w],
                           [AlarmRegs(\h94, \h80, MON, f) EXCEPT ![28] = \h80])
        IN  Idle(ds, LeapOf(ds), 11, _I2C_addr, 8)

Init == Boot \/ Running

Next ==
    \/ Timer_A0
    \/ USI_start
    \/ USI_case3(HostAddrs)
    \/ USI_case6
    \/ USI_case11
    \/ USI_case12
    \/ USI_case13(HostOffsets, HostData)
    \/ USI_case14
    \/ USI_case15
    \/ Main

Spec == Init /\ [][Next]_vars

\* ------------------------------------------------------------------------
\* C3
\* ------------------------------------------------------------------------

\* The step is the call of _time_increment from the main loop.
AdvanceStep == pc = "L125" /\ pc' = "L126"

\* The alarm-check request, bit 3 of the action bits.
Requested(bits) == BitSet(bits, 3)

\* C3: an advance from seconds 59 sets seconds to 00, counts the minute up
\* by one in BCD (59 rolls to 00 and the hour counts up) and raises the
\* alarm-check request; an advance from any other second leaves the request
\* as it is, no other step raises it, and _check_alarms is entered only
\* from line 128 with the request pending, after the advance has returned.
C3_SecondRoll ==
    [][/\ (AdvanceStep /\ sec = \h59) =>
              /\ sec' = \h00
              /\ IF minute = \h59
                 THEN /\ minute' = \h00
                      /\ BCDNext(hour, hour') \/ (hour = \h23 /\ hour' = \h00)
                 ELSE BCDNext(minute, minute') /\ hour' = hour
              /\ Requested(_RTC_action_bits')
       /\ (AdvanceStep /\ sec # \h59) =>
              (Requested(_RTC_action_bits') <=> Requested(_RTC_action_bits))
       /\ (~Requested(_RTC_action_bits) /\ Requested(_RTC_action_bits')) =>
              (AdvanceStep /\ sec = \h59)
       /\ (pc # "L129" /\ pc' = "L129") =>
              (pc = "L128" /\ Requested(_RTC_action_bits))]_vars

\* 14:29:59 has become 14:30:00 and the request is pending.
C3_Witness ==
    /\ pc = "L126"
    /\ sec = \h00 /\ minute = \h30 /\ hour = \h14
    /\ Requested(_RTC_action_bits)

\* ------------------------------------------------------------------------
\* C9
\* ------------------------------------------------------------------------

\* Flag bit i - 1 of offset 30 goes from 0 to 1 in the step.
Raised(i) ==
    ~BitSet(_DATA_STORE[30], i - 1) /\ BitSet(_DATA_STORE'[30], i - 1)

\* The day mask bit of the weekday at offset 3 (MON is bit 0, SUN bit 6).
WeekdayBit == IF dow \in 1..7 THEN 2 ^ (dow - 1) ELSE 0

\* Alarm i matches the time: its minute is the minute register, its hour is
\* the hour register plus 0x80, and its day mask has the match-any bit or
\* the bit of the weekday the running call of _check_alarms read on entry.
Matches(i) ==
    /\ _DATA_STORE[AlarmBase(i)] = minute
    /\ _DATA_STORE[AlarmBase(i) + 1] = hour + \h80
    /\ \/ BitSet(_DATA_STORE[AlarmBase(i) + 2], 7)
       \/ \E d \in 0..6 : /\ BitSet(_DATA_STORE[AlarmBase(i) + 2], d)
                          /\ BitSet(day_mask_bit, d)

\* C9: while no store has landed outside the register file, a flag bit of
\* offset 30 goes from 0 to 1 only in the if statement of its alarm in
\* _check_alarms, with the alarm matching the minute and hour registers and
\* the weekday that call read from offset 3 on entry; no step of the USI
\* interrupt (a host write to offset 30 included) raises one.
C9_FlagsRaisedByCheck ==
    [][~stray' =>
          /\ \A i \in 1..6 :
                Raised(i) => (pc = AlarmLine[i] /\ Matches(i))
          /\ (pc = "L129" /\ pc' # "L129") => day_mask_bit' = WeekdayBit]_vars

\* The check has raised the flag of alarm 1 at 14:30:00 after the host wrote
\* 0x3F to offset 30, which left the flags 0x00.
C9_Witness ==
    /\ pc = AlarmLine[2]
    /\ _DATA_STORE[30] = \h01
    /\ _USI_I2C_slave_RX_buff = \h3F /\ _I2C_data_offset = 31
    /\ ~stray

\* ------------------------------------------------------------------------
\* SpecBus: the USI interrupt alone (no tick is pending and the main loop
\* finds nothing to do).  The host starts transactions from idle, or goes
\* on with a write whose earlier bytes left the cursor at 25 or 29.
\* ------------------------------------------------------------------------

\* The registers ds with the protocol engine in state st, byte-count
\* tracker n and cursor off, the address own selected at start-up.
BusState(ds, st, n, off, own) ==
    /\ _DATA_STORE = ds
    /\ _second_tick = 0
    /\ _is_leap_year = LeapOf(ds)
    /\ _I2C_data_offset = off
    /\ _RTC_action_bits = \h00
    /\ _RTC_byte_l = \h00
    /\ _RTC_byte_h = \h00
    /\ _USI_I2C_slave_n_byte = n
    /\ _USI_I2C_slave_own_addr = own
    /\ _USI_I2C_slave_state = st
    /\ _USI_I2C_slave_RX_buff = \h00
    /\ USISRL = \h00
    /\ P1OUT = P1OUT_init
    /\ P2OUT = \h00
    /\ pc = "L124"
    /\ day_mask_bit = \h00
    /\ stray = FALSE
    /\ calls = 0
    /\ nticks = 0
    /\ nbus = 0

InitBus ==
    \/ \E off \in {0, 8, 25, 29}, own \in {_I2C_addr, _I2C_addr_op1} :
           BusState(TimeRegs(Epoch, Pattern), 0, 0, off, own)
    \/ \E off \in {25, 29} :
           BusState(TimeRegs(Epoch, Pattern), 11, 1, off, _I2C_addr)

NextBus ==
    \/ USI_start
    \/ USI_case3(HostAddrs)
    \/ USI_case6
    \/ USI_case11
    \/ USI_case12
    \/ USI_case13(HostOffsets, HostData)
    \/ USI_case14
    \/ USI_case15

SpecBus == InitBus /\ [][NextBus]_vars

\* ------------------------------------------------------------------------
\* C11
\* ------------------------------------------------------------------------

\* The step is the USI interrupt that takes a received byte (case 13).
ReceiveStep == _USI_I2C_slave_state = 13 /\ _USI_I2C_slave_state' = 11

\* Every register but those at the offsets in S is unchanged.
SameBut(S) ==
    \A k \in 0..30 : k \notin S => _DATA_STORE'[k] = _DATA_STORE[k]

\* C11: in a write transaction the first byte received sets the cursor and
\* is stored nowhere; a later byte b received with the cursor at c <= 30 is
\* stored as it is at c unless c is 26, 27 or 30, the registers 26 and 27
\* keep their value, the cursor moves to c + 1 after every data byte, a
\* discarded one included, and no other register changes; start, address
\* and acknowledge steps change neither registers nor cursor.
C11_WriteTransaction ==
    [][/\ (ReceiveStep /\ _USI_I2C_slave_n_byte = 0) =>
              /\ _DATA_STORE' = _DATA_STORE /\ stray' = stray
              /\ _I2C_data_offset' = _USI_I2C_slave_RX_buff'
       /\ (ReceiveStep /\ _USI_I2C_slave_n_byte # 0
                /\ _I2C_data_offset <= 30) =>
              /\ _I2C_data_offset' = _I2C_data_offset + 1
              /\ SameBut({_I2C_data_offset}) /\ stray' = stray
              /\ _I2C_data_offset \notin {26, 27, 30} =>
                    _DATA_STORE'[_I2C_data_offset] = _USI_I2C_slave_RX_buff'
              /\ _I2C_data_offset \in {26, 27} =>
                    _DATA_STORE'[_I2C_data_offset]
                        = _DATA_STORE[_I2C_data_offset]
       /\ (_USI_I2C_slave_state \in {0, 3, 6, 11}) =>
              /\ _DATA_STORE' = _DATA_STORE
              /\ _I2C_data_offset' = _I2C_data_offset]_vars

\* The data bytes 0x3F, 0x01, 0x3F sent from cursor 25 have been stored at
\* offset 25, discarded at 26 and 27, and the cursor is at 28.
C11_Witness ==
    /\ _USI_I2C_slave_state = 11 /\ _USI_I2C_slave_n_byte = 1
    /\ _I2C_data_offset = 28
    /\ _DATA_STORE[25] = \h3F
    /\ _DATA_STORE[26] = Pattern[26] /\ _DATA_STORE[27] = Pattern[27]
    /\ _DATA_STORE[28] = Pattern[28]
    /\ _USI_I2C_slave_RX_buff = \h3F
    /\ ~stray

\* ------------------------------------------------------------------------
\* C12
\* ------------------------------------------------------------------------

\* The step loads a data byte into the shift register (case 12, or case 15
\* after an acknowledge).
SendStep ==
    _USI_I2C_slave_state \in {12, 15} /\ _USI_I2C_slave_state' = 14

\* C12: in a read transaction every byte sent with the cursor at c <= 30 is
\* the register at c and the cursor moves to c + 1, so the host receives
\* the registers k, k + 1, ... in order with none skipped or repeated; the
\* address, acknowledge and not-acknowledge steps of the read leave the
\* cursor alone, and no step of the read changes a register.
C12_ReadTransaction ==
    [][/\ (SendStep /\ _I2C_data_offset <= 30) =>
              /\ USISRL' = _DATA_STORE[_I2C_data_offset]
              /\ _I2C_data_offset' = _I2C_data_offset + 1
       /\ (_USI_I2C_slave_state \in {12, 14, 15}) =>
              /\ _DATA_STORE' = _DATA_STORE /\ stray' = stray
              /\ ~SendStep => _I2C_data_offset' = _I2C_data_offset
       /\ (_USI_I2C_slave_state = 3 /\ _USI_I2C_slave_state' = 12) =>
              _I2C_data_offset' = _I2C_data_offset]_vars

\* With the cursor left at 8, the host has read the registers 8 and 9: the
\* second byte is in the shift register and the cursor is at 10.
C12_Witness ==
    /\ _USI_I2C_slave_state = 14 /\ nbus = 5
    /\ _I2C_data_offset = 10
    /\ USISRL = Pattern[9] /\ Pattern[9] # Pattern[8]
    /\ _DATA_STORE = TimeRegs(Epoch, Pattern)

\* ------------------------------------------------------------------------
\* C13
\* ------------------------------------------------------------------------

\* The 7-bit address in the address byte a.
Addr7(a) == a \div 2

\* C13: when the address byte received after a start carries a 7-bit
\* address other than the one selected at start-up (the other provisioned
\* address included), the engine loads the not-acknowledge 0xFF, goes to
\* state 6 and changes neither registers nor cursor; the next interrupt
\* takes it from state 6 to idle; and in every state a start followed by
\* the selected address is acknowledged (0x00) and opens the receive or
\* the transmit phase.
C13_AddressMismatch ==
    [][/\ \A a \in HostAddrs :
              USI_case3({a}) =>
                  IF Addr7(a) # _USI_I2C_slave_own_addr
                  THEN /\ _USI_I2C_slave_state' = 6 /\ USISRL' = \hFF
                       /\ _DATA_STORE' = _DATA_STORE
                       /\ _I2C_data_offset' = _I2C_data_offset
                  ELSE /\ _USI_I2C_slave_state' = IF a % 2 = 0 THEN 11 ELSE 12
                       /\ USISRL' = \h00
       /\ (_USI_I2C_slave_state = 6 /\ _USI_I2C_slave_state' # 3) =>
              /\ _USI_I2C_slave_state' = 0
              /\ _DATA_STORE' = _DATA_STORE
              /\ _I2C_data_offset' = _I2C_data_offset
       /\ USI_start => _USI_I2C_slave_state' = 3]_vars

\* The device strapped to 0x43 has not acknowledged the first address byte
\* (0xFF is still in the shift register) and is back in idle, registers and
\* cursor as they were.
C13_Witness ==
    /\ nbus = 3 /\ _USI_I2C_slave_state = 0 /\ USISRL = \hFF
    /\ _USI_I2C_slave_own_addr = _I2C_addr_op1
    /\ _I2C_data_offset = 8 /\ _DATA_STORE = TimeRegs(Epoch, Pattern)

\* ------------------------------------------------------------------------
\* C14
\* ------------------------------------------------------------------------

\* C14: in whatever state the engine is, a start condition takes it to the
\* address check (state 3) with the byte-count tracker 0 and changes
\* neither registers nor cursor; the tracker stays 0 through the address
\* and the receive set-up, so the first byte received after the write
\* address only becomes the cursor and is stored nowhere.
C14_StartResets ==
    [][/\ USI_start =>
              /\ _USI_I2C_slave_state' = 3 /\ _USI_I2C_slave_n_byte' = 0
              /\ _DATA_STORE' = _DATA_STORE /\ stray' = stray
              /\ _I2C_data_offset' = _I2C_data_offset
       /\ nbus < MaxBus => ENABLED USI_start
       /\ _USI_I2C_slave_state \in {0, 3, 6, 11, 12, 13, 14, 15}
       /\ _USI_I2C_slave_state = 3 => _USI_I2C_slave_n_byte = 0
       /\ (_USI_I2C_slave_state \in {3, 11} /\ ~USI_start) =>
              _USI_I2C_slave_n_byte' = _USI_I2C_slave_n_byte
       /\ (ReceiveStep /\ _USI_I2C_slave_n_byte = 0) =>
              /\ _DATA_STORE' = _DATA_STORE /\ stray' = stray
              /\ _I2C_data_offset' = _USI_I2C_slave_RX_buff'
              /\ _USI_I2C_slave_n_byte' = 1]_vars

\* A start has cut a write short after its data byte 0x3F went to offset 25:
\* the engine checks the address again and the tracker is back at 0.
C14_Witness ==
    /\ nbus = 3 /\ _USI_I2C_slave_state = 3 /\ _USI_I2C_slave_n_byte = 0
    /\ _I2C_data_offset = 26 /\ _DATA_STORE[25] = \h3F

\* ------------------------------------------------------------------------
\* SpecLive: the timer interrupt and the main loop with no bus traffic.  The
\* timer interrupt fires as long as the model counts ticks.  The main loop
\* never sleeps: one of its statements is enabled in every state and each
\* of them moves pc, so its weak fairness is that pc moves again and again.
\* ------------------------------------------------------------------------

InitLive == Boot \/ Running

NextLive == Timer_A0 \/ Main

\* A statement of the main loop is executed.
MainMoves == pc' # pc

SpecLive ==
    /\ InitLive /\ [][NextLive]_vars
    /\ WF_vars(Timer_A0)
    /\ []<><<MainMoves>>_vars

\* ------------------------------------------------------------------------
\* C15
\* ------------------------------------------------------------------------

\* The ticks from now until the tick handler counts t (1..16).
TicksTo(t) ==
    IF _second_tick < t THEN t - _second_tick ELSE t + 16 - _second_tick

\* The model still counts the tick t, or the request bit is pending already.
WillRequest(t, bit) ==
    TicksTo(t) <= MaxTicks - nticks \/ BitSet(_RTC_action_bits, bit)

Unison == BitSet(P1OUT, 5)

\* C15: with timer and main loop scheduled fairly and offsets 29 and 30 not
\* written by the host, once an alarm has its flag and its enable bit set
\* the unison output P1.5 eventually goes high (at the next tick 2), and
\* whenever P1.5 is high it eventually goes low again (at the next tick 6,
\* by _alarm_reset_interrupt); both as long as that tick is still counted.
C15_Pulse ==
    /\ ((\E i \in 1..6 : Fired(i)) /\ WillRequest(2, 4)) ~> Unison
    /\ (Unison /\ WillRequest(6, 5)) ~> ~Unison

\* On a Monday at 14:30:00 the check has raised the flags of alarms 1, 2, 4
\* and 6, and the call of _alarm_interrupt has driven P1.5 high.
C15_Witness ==
    /\ pc = "L134" /\ Unison
    /\ _DATA_STORE[30] = \h2B /\ sec = \h00 /\ minute = \h30

\* ------------------------------------------------------------------------
\* C16
\* ------------------------------------------------------------------------

\* Alarm i matches the live registers: minute, hour plus 0x80, and a day
\* mask with bit 7 or with the bit of the weekday at offset 3 (Monday is
\* weekday 1 and bit 0, Sunday weekday 7 and bit 6).
LiveMatch(i) ==
    /\ _DATA_STORE[AlarmBase(i)] = minute
    /\ _DATA_STORE[AlarmBase(i) + 1] = hour + \h80
    /\ \/ BitSet(_DATA_STORE[AlarmBase(i) + 2], 7)
       \/ dow \in 1..7 /\ BitSet(_DATA_STORE[AlarmBase(i) + 2], dow - 1)

\* C16: in a call of _check_alarms that no interrupt cuts into, the if
\* statement of alarm i leaves flag bit i - 1 set when it was set and sets
\* it exactly when the alarm matches the live minute, hour and weekday; an
\* alarm whose stored hour has bit 7 clear is never set by it; every other
\* flag bit and every other register stays as it is, and the weekday decode
\* at the head of the call changes no register.
C16_CheckAlarms ==
    [][/\ \A i \in 1..6 :
              pc = AlarmLine[i] =>
                  /\ BitSet(_DATA_STORE'[30], i - 1) <=>
                         (BitSet(_DATA_STORE[30], i - 1) \/ LiveMatch(i))
                  /\ ~BitSet(_DATA_STORE[AlarmBase(i) + 1], 7) =>
                         (BitSet(_DATA_STORE'[30], i - 1)
                              <=> BitSet(_DATA_STORE[30], i - 1))
                  /\ \A n \in (0..7) \ {i - 1} :
                         BitSet(_DATA_STORE'[30], n)
                             <=> BitSet(_DATA_STORE[30], n)
                  /\ SameBut({30})
       /\ pc = "L129" => _DATA_STORE' = _DATA_STORE]_vars

\* On a Saturday at 14:30 the call has returned: alarm 1, stored with hour
\* 0x14, stayed clear; alarms 2 (Saturday and Sunday), 4 and 6 are flagged.
C16_Witness ==
    /\ pc = "L130" /\ dow = 6 /\ minute = \h30 /\ hour = \h14
    /\ _DATA_STORE[9] = \h14 /\ _DATA_STORE[13] = SAT + SUN
    /\ _DATA_STORE[30] = \h2A

\* ------------------------------------------------------------------------
\* SpecTimer: the timer interrupt alone, started in any phase of the second
\* with no request pending and the square wave at either level.
\* ------------------------------------------------------------------------

InitTimer ==
    \E p \in 0..15, sq \in {0, BIT0} :
        AtLine(_init_DS, "L124", \h00, p, P1OUT_init + sq, \h00)

SpecTimer == InitTimer /\ [][Timer_A0]_vars

\* ------------------------------------------------------------------------
\* C17
\* ------------------------------------------------------------------------

\* The value of the tick counter when the window of the last nticks ticks
\* began, and the values the handler has counted to in that window.
WindowStart == (_second_tick + 32 - nticks) % 16
Counted == {((WindowStart + j - 1) % 16) + 1 : j \in 1..nticks}

Pending(bit) == BitSet(_RTC_action_bits, bit)

\* The claim as stated: in every window of up to 16 consecutive ticks the
\* requests come in the order assertion, reset, time advance.
C17_Original ==
    nticks <= 16 => /\ Pending(5) => Pending(4)
                    /\ Pending(0) => Pending(5)

\* C17 (amended): the tick counter is in 0..15 after every tick; the tick
\* that counts 2 raises the assertion request, 6 the reset request, 12 the
\* time-advance request, 8 and 16 toggle the square wave, and no other
\* tick does any of it, so every window of 16 consecutive ticks has each
\* request exactly once and two toggles 8 ticks apart; the requests come in
\* the order assertion, reset, advance in a window that begins with the
\* counter at 0, and in a rotation of that order in any other window.
C17_TickCycle ==
    [][LET t == _second_tick + 1
       IN  /\ _second_tick' \in 0..15 /\ _second_tick' = t % 16
           /\ \A n \in 0..7 :
                 BitSet(_RTC_action_bits', n) <=>
                     \/ BitSet(_RTC_action_bits, n)
                     \/ n = 4 /\ t = 2
                     \/ n = 5 /\ t = 6
                     \/ n = 0 /\ t = 12
           /\ (BitSet(P1OUT', 0) # BitSet(P1OUT, 0)) <=> t \in {8, 16}
           /\ \A n \in 1..7 : BitSet(P1OUT', n) <=> BitSet(P1OUT, n)
           /\ nticks <= 16 =>
                 /\ Pending(4) <=> 2 \in Counted
                 /\ Pending(5) <=> 6 \in Counted
                 /\ Pending(0) <=> 12 \in Counted
           /\ (nticks <= 16 /\ WindowStart = 0) =>
                 /\ Pending(5) => Pending(4)
                 /\ Pending(0) => Pending(5)
           /\ nticks = 16 => Pending(4) /\ Pending(5) /\ Pending(0)]_vars

\* A window of 16 ticks that began with the counter at 3 is complete: the
\* three requests are raised and the square wave is back at its level.
C17_Witness ==
    /\ nticks = 16 /\ _second_tick = 3
    /\ _RTC_action_bits = BIT0 + BIT4 + BIT5
    /\ P1OUT = P1OUT_init

\* ------------------------------------------------------------------------
\* C18
\* ------------------------------------------------------------------------

\* The timer interrupt that counts 12.
TickTwelve == _second_tick = 11 /\ _second_tick' = 12

\* The claim as stated: no request is merged with another one or lost, so
\* none is raised while an earlier one is pending or its action is running.
C18_Original == [][TickTwelve => ~Pending(0)]_vars

\* C18 (amended): for every interleaving of ticks and main-loop steps the
\* time-advance request is raised by the tick that counts 12 and by nothing
\* else, is cleared by line 126 of the drain pass and by nothing else, and
\* _time_increment runs only on a pending request, once between the request
\* and its clearing, which is the next main-loop step after the run; a
\* pending request is always served.  The request is one flag bit: a tick
\* 12 that arrives while an earlier request is still pending or its action
\* is running changes nothing, and the two are served by one run.
C18_AdvanceRequest ==
    /\ [][/\ (Pending(0)' /\ ~Pending(0)) => TickTwelve
          /\ TickTwelve => Pending(0)'
          /\ (Pending(0) /\ ~Pending(0)') => (pc = "L126" /\ pc' = "L128")
          /\ AdvanceStep => (Pending(0) /\ Pending(0)')
          /\ pc \in {"L125", "L126"} => Pending(0)
          /\ (pc = "L124" /\ Pending(0) /\ pc' # pc) => pc' = "L125"
          /\ (pc = "L124" /\ ~Pending(0) /\ pc' # pc) => pc' = "L128"
          /\ (pc = "L125" /\ pc' # pc) => AdvanceStep
          /\ (pc = "L126" /\ pc' # pc) => ~Pending(0)'
          /\ (TickTwelve /\ Pending(0)) =>
                 _RTC_action_bits' = _RTC_action_bits]_vars
    /\ Pending(0) ~> (pc = "L126")

\* The request raised at the first tick has been served by one advance,
\* 14:29:59 to 14:30:00, and cleared, while the next tick arrived.
C18_Witness ==
    /\ pc = "L128" /\ ~Pending(0) /\ nticks = 2 /\ _second_tick = 13
    /\ hour = \h14 /\ minute = \h30 /\ sec = \h00

\* ------------------------------------------------------------------------
\* C19
\* ------------------------------------------------------------------------

AssertStep == pc = "L133" /\ pc' = "L134"
ResetStep == pc = "L137" /\ pc' = "L138"

\* The line the main loop goes to from line l when the request bits are b.
NextLine(l, b) ==
    CASE l = "L124" -> IF BitSet(b, 0) THEN "L125" ELSE "L128"
      [] l = "L125" -> "L126"
      [] l = "L126" -> "L128"
      [] l = "L128" -> IF BitSet(b, 3) THEN "L129" ELSE "L132"
      [] l = "L129" -> "L316"
      [] l = "L316" -> "L322"
      [] l = "L322" -> "L328"
      [] l = "L328" -> "L334"
      [] l = "L334" -> "L340"
      [] l = "L340" -> "L346"
      [] l = "L346" -> "L130"
      [] l = "L130" -> "L132"
      [] l = "L132" -> IF BitSet(b, 4) THEN "L133" ELSE "L136"
      [] l = "L133" -> "L134"
      [] l = "L134" -> "L136"
      [] l = "L136" -> IF BitSet(b, 5) THEN "L137" ELSE "L124"
      [] l = "L137" -> "L138"
      [] l = "L138" -> "L124"

\* The claim as stated: within one 16-tick cycle the reset never runs
\* while the assertion request, raised four ticks earlier, is unserved.
C19_Original == [][(ResetStep /\ nticks <= 16) => ~Pending(4)]_vars

\* C19 (amended): the main loop executes pending actions in the order of
\* its own tests, time advance (line 124), alarm check (128), assertion
\* (132), reset (136) and round again, from the line it is at; an action
\* runs only while its request is pending and every pending request is
\* served.  The assertion precedes the reset when the loop tests line 132
\* with the assertion request pending; the order in which the requests
\* were raised plays no part.
C19_LoopOrder ==
    /\ [][/\ pc' # pc => pc' = NextLine(pc, _RTC_action_bits)
          /\ pc = "L125" => Pending(0)
          /\ pc \in {"L129", "L316", "L322", "L328", "L334", "L340",
                     "L346", "L130"} => Pending(3)
          /\ pc \in {"L133", "L134"} => Pending(4)
          /\ pc \in {"L137", "L138"} => Pending(5)
          /\ (Pending(4) /\ ~Pending(4)') => (pc = "L134" /\ pc' = "L136")
          /\ (Pending(5) /\ ~Pending(5)') => (pc = "L138" /\ pc' = "L124")
          /\ (pc = "L132" /\ Pending(4) /\ Pending(5) /\ pc' # pc) =>
                 (pc' = "L133" /\ Pending(5)')]_vars
    /\ Pending(4) ~> (pc = "L134")
    /\ Pending(5) ~> (pc = "L138")

\* Both requests of one cycle are pending and the loop is at the call of
\* the assertion.
C19_Witness ==
    pc = "L133" /\ Pending(4) /\ Pending(5) /\ nticks <= 16

\* ------------------------------------------------------------------------
\* C20
\* ------------------------------------------------------------------------

\* The date is a day of the current month for the leap cache.
DateInMonth ==
    /\ IsBCD(date) /\ date >= \h01
    /\ date <= MonthDays(month, _is_leap_year)

\* C20: after every completed call of _time_increment, from a calendar
\* time with a consistent leap cache and no host write, the date is between
\* 01 and the length of the current month.
C20_DateInMonth == calls > 0 => DateInMonth

\* The only date out of its month that an advance produces is 30 February
\* of a leap year, which the next advance turns into 1 March.
C20_OnlyLeapFebruary ==
    calls > 0 =>
        \/ DateInMonth
        \/ month = \h02 /\ date = \h30 /\ _is_leap_year = 1 /\ calls = 1
           /\ hour = \h00 /\ minute = \h00 /\ sec = \h00

\* ------------------------------------------------------------------------
\* SpecYear: calls of _time_increment and host writes that begin at the
\* year register: the host has sent the offset 6 and sends data bytes, the
\* first stored at offset 6 and the next at offset 7.
\* ------------------------------------------------------------------------

YearTimes ==
    { [Edge EXCEPT !.date = d, !.month = mo, !.year = y, !.cent = \h20] :
        d \in {\h28, \h31}, mo \in {\h02, \h12},
        y \in {\h03, \h04, \h99} }

YearData == {\h03, \h04}

InitYear ==
    \E t \in {u \in YearTimes : Calendar(u)} :
        Receiving(TimeRegs(t, Zeros), 6)

NextYear ==
    \/ Call_time_increment
    \/ USI_case11
    \/ USI_case13({6}, YearData)

SpecYear == InitYear /\ [][NextYear]_vars

\* ------------------------------------------------------------------------
\* C21
\* ------------------------------------------------------------------------

\* The call of _time_increment reaches case 0x29 of the date switch in
\* February, where it reads the leap cache.
ConsultsCache ==
    /\ month = \h02
    /\ \/ date = \h28 /\ LastSecondOfDay
       \/ date = \h29 /\ ~LastSecondOfDay

\* C21: whenever _time_increment consults the leap cache for the February
\* date check, after any advances and host writes, the cache is the leap
\* predicate of the year register.
C21_CacheCurrent ==
    [][(Advanced /\ ConsultsCache) =>
           _is_leap_year = LeapOf(_DATA_STORE)]_vars

\* With no host write the cache is the leap predicate of the year register
\* before and after every call, a year rollover included.
C21_CacheNoWrites == _is_leap_year = LeapOf(_DATA_STORE)

\* ------------------------------------------------------------------------
\* SpecStore: a write transaction after the address byte: the host sends
\* any offset byte and then data bytes.
\* ------------------------------------------------------------------------

InitStore ==
    \E own \in {_I2C_addr, _I2C_addr_op1} :
        BusState(TimeRegs(Epoch, Pattern), 13, 0, 0, own)

NextStore ==
    \/ USI_case11
    \/ USI_case13(Byte, HostData)

SpecStore == InitStore /\ [][NextStore]_vars

\* ------------------------------------------------------------------------
\* C22
\* ------------------------------------------------------------------------

\* The receive step stores a data byte: it is not the offset byte and the
\* cursor is not at one of the two registers the callback skips.
StoreStep ==
    /\ ReceiveStep
    /\ _USI_I2C_slave_n_byte # 0
    /\ _I2C_data_offset \notin {26, 27}

\* C22: for every offset byte and every number of data bytes, the cursor of
\* a store is within 0..30 and nothing outside the register file is
\* written.
C22_StoreInRange ==
    [][StoreStep => (_I2C_data_offset \in 0..30 /\ ~stray')]_vars

\* ------------------------------------------------------------------------
\* SpecTorn: _time_increment in the main context, one step for each of its
\* statements (the increment of line 180 and the if or switch statements
\* that follow it), with the bus interrupt of a read transaction between
\* them.  Interrupts are enabled from line 121 on and the call does not
\* mask them.
\* ------------------------------------------------------------------------

\* line 180: _DATA_STORE[0]++
TI_second_count(e) == [e EXCEPT !.ds[0] = Inc8(@)]

\* lines 181-187: the if statement on the second
TI_second_test(e) ==
    IF e.ds[0] = \h5A
    THEN [e EXCEPT !.ds[0] = 0, !.ds[1] = Inc8(@), !.bits = Or8(@, BIT3)]
    ELSE _time_carry(e, 0)

\* The statement at line `line` of _time_increment leaves the engine as e;
\* control goes to `next`.
TimeStatement(line, e, next) ==
    /\ pc = line
    /\ SetEngine(e)
    /\ pc' = next
    /\ UNCHANGED << _second_tick, cursorVars, usiVars, outVars, day_mask_bit,
                    counters >>

time_L180 == TimeStatement("L180", TI_second_count(Engine), "L181")
time_L181 == TimeStatement("L181", TI_second_test(Engine), "L189")
time_L189 == TimeStatement("L189", TI_minute(Engine), "L196")
time_L196 == TimeStatement("L196", TI_hour(Engine), "L204")
time_L204 == TimeStatement("L204", TI_day(Engine), "L207")
time_L207 == TimeStatement("L207", TI_date(Engine), "L245")
time_L245 == TimeStatement("L245", TI_month(Engine), "L253")
time_L253 == TimeStatement("L253", TI_year(Engine), "L260")
time_L260 == TimeStatement("L260", TI_leap(Engine), "L266")
time_L266 == TimeStatement("L266", TI_century(Engine), "L126")

\* The main loop has found the time-advance request of tick 12 and entered
\* _time_increment; the host has addressed the device for reading with the
\* cursor at off.
Advancing(ds, off) ==
    /\ _DATA_STORE = ds
    /\ _second_tick = 12
    /\ _is_leap_year = LeapOf(ds)
    /\ _I2C_data_offset = off
    /\ _RTC_action_bits = BIT0
    /\ _RTC_byte_l = \h00
    /\ _RTC_byte_h = \h00
    /\ _USI_I2C_slave_n_byte = 0
    /\ _USI_I2C_slave_own_addr = _I2C_addr
    /\ _USI_I2C_slave_state = 12
    /\ _USI_I2C_slave_RX_buff = \h00
    /\ USISRL = \h00
    /\ P1OUT = P1OUT_init
    /\ P2OUT = \h00
    /\ pc = "L180"
    /\ day_mask_bit = \h00
    /\ stray = FALSE
    /\ calls = 0
    /\ nticks = 0
    /\ nbus = 0

TornTimes == {Edge, [Epoch EXCEPT !.sec = \h09], [Epoch EXCEPT !.sec = \h30]}

InitTorn ==
    \E t \in TornTimes, off \in 0..7 : Advancing(TimeRegs(t, Zeros), off)

NextTorn ==
    \/ time_L180 \/ time_L181 \/ time_L189 \/ time_L196 \/ time_L204
    \/ time_L207 \/ time_L245 \/ time_L253 \/ time_L260 \/ time_L266
    \/ USI_case12
    \/ USI_case14
    \/ USI_case15

SpecTorn == InitTorn /\ [][NextTorn]_vars

\* ------------------------------------------------------------------------
\* C23
\* ------------------------------------------------------------------------

\* v is a value the field at offset k holds between advances.
FieldValue(k, v) ==
    CASE k \in {0, 1} -> InRange(v, 0, 59)
      [] k = 2 -> InRange(v, 0, 23)
      [] k = 3 -> v \in 1..7
      [] k = 4 -> InRange(v, 1, 31)
      [] k = 5 -> InRange(v, 1, 12)
      [] k \in {6, 7} -> InRange(v, 0, 99)

\* C23: with the bus interrupt running between the statements of
\* _time_increment and no host write, every byte sent from offsets 0..7 is
\* an in-range BCD value of its field.
C23_NoTornRead ==
    [][(SendStep /\ _I2C_data_offset \in 0..7) =>
           FieldValue(_I2C_data_offset, USISRL')]_vars

\* The statements of lines 180-187 together are the second stage of the
\* call as the main loop's line 125 runs it.
C23_SameCall ==
    /\ TI_second(Engine) = TI_second_test(TI_second_count(Engine))
    /\ pc = "L126" => FieldValue(0, sec)

====
